---- MODULE Spec2Model ----
(***************************************************************************)
(* Model of the fetch-and-cache engine of marks-qsearch (src/logic.py,     *)
(* src/main.py).  Four parts share the module:                            *)
(*   - fetch_with_retries: the retry loop of one HTTP request (SpecFetch); *)
(*   - search_questions:   the chapter fan-out under the semaphore and     *)
(*                         asyncio.gather (SpecCrawl);                     *)
(*   - the cache store:    load_cache_with_fallback, save_cache_atomic and *)
(*                         save_cache_with_backup over primary, backup and *)
(*                         temporary files, by the threads of two          *)
(*                         processes (Spec);                               *)
(*   - one search in detail: list_chapters, fetch_question_details, the    *)
(*                         progress callback and the output files of two   *)
(*                         chapters (SpecSearch).                          *)
(* Each specification moves the variables of its own part and leaves the   *)
(* variables of the other parts at their parked values.                    *)
(***************************************************************************)
EXTENDS Integers, Sequences, FiniteSets, TLC

VARIABLES
  \* ---- fetch_with_retries
  fpc,        \* position of the call: idle, request, sleep, returned, raised
  fmethod,    \* the method argument: GET or POST
  delay,      \* the local variable delay
  sleeps,     \* history: the delays slept so far in this call
  issued,     \* history: the method of every request attempt of this call
  lastResp,   \* outcome of the latest request attempt
  fresult,    \* what the call gave its caller: none, json, null, exception
  \* ---- search_questions
  mpc,        \* position of search_questions: listing, gather, returned
  chapters,   \* the chapter list list_chapters gave: the set of chapter numbers
  tpc,        \* per chapter, the position of its process_chapter task
  qi,         \* per chapter, how many of its questions have been processed
  semValue,   \* semaphore._value
  semWaiters, \* semaphore._waiters, first come first
  matching_questions, \* the list matching_questions: <<chapter, index>> entries
  gatherExc,  \* the gather future holds the first exception of a task
  result,     \* the list search_questions returned
  \* ---- the cache store
  primary,    \* the file CACHE_FILE (data/cache.json)
  backup,     \* the file BACKUP_FILE (data/cache.bak)
  temp,       \* the file CACHE_FILE.tmp
  fileLock,   \* the thread whose process holds InterProcessLock(CACHE_FILE.lock)
  alive,      \* per process, whether it runs
  starts,     \* how many times a process has been started
  cache,      \* per process, the in-memory cache: the set of its keys
  cacheLock,  \* per process, the thread that holds cache_lock
  ppc,        \* per thread, its position in save_cache_with_backup
  callKeys,   \* per thread, the keys of the cache when it called persist
  cache_copy, \* per thread, save_cache_atomic's cache_copy
  acquired,   \* per thread, lock.acquired of its InterProcessLock
  failed,     \* per thread, an exception is on its way out of persist
  wfile,      \* per thread, the file its open write descriptor refers to
  wpos,       \* per thread, the offset of its open write descriptor
  copybuf,    \* per thread, what shutil.copy read from the primary
  snapshots,  \* history: the caches whose complete image has been the primary
  instances,  \* which instances of the application this run has
  loaded,     \* history: what the latest load_cache_with_fallback gave
  lastOk,     \* history: the latest persist that returned, none under way since
  persistEnd, \* history: per thread, how its latest persist ended
  established, \* history: a load gave a non-empty cache or a persist returned
  \* ---- one search in detail
  searchPc,   \* position of search_questions: idle, list_fetch, gather,
              \* returned, raised
  searches,   \* how many searches run_search has started
  chapterList, \* cache[cache_key]: absent, empty (the list []) or full
  listResp,   \* what the fetch of list_chapters gave in this search
  listRequests, \* history: the network requests list_chapters has issued
  questionCache, \* the question ids whose detail is in the in-memory cache
  requests,   \* history: per question id, the network requests issued for it
  titles,     \* per chapter, the title the remote gives it
  taskPc,     \* per chapter, the position of its process_chapter task
  processed,  \* per chapter, how many of its question ids the loop has passed
  found,      \* matching_questions: the details appended, with their chapter
  progress,   \* history: how many times progress_callback(1) was called
  outFiles,   \* per output path, the question whose detail the file holds
  wrote,      \* history: per output path, the chapters that wrote it
  detailed,   \* history: the chapters whose detail fetch gave JSON
  taskExc,    \* per chapter, the exception that ended its task
  searchExc   \* the exception that search_questions raised

fvars == <<fpc, fmethod, delay, sleeps, issued, lastResp, fresult>>

cvars == <<mpc, chapters, tpc, qi, semValue, semWaiters, matching_questions,
           gatherExc, result>>

files == <<primary, backup, temp>>
dvars == <<files, fileLock, alive, starts, cache, cacheLock, ppc, callKeys,
           cache_copy, acquired, failed, wfile, wpos, copybuf, snapshots,
           instances, loaded, lastOk, persistEnd, established>>

svars == <<searchPc, searches, chapterList, listResp, listRequests,
           questionCache, requests, titles, taskPc, processed, found, progress,
           outFiles, wrote, detailed, taskExc, searchExc>>

vars == <<fvars, cvars, dvars, svars>>

\* what the actions of one part leave alone: the variables of the other parts
notFetch == <<cvars, dvars, svars>>
notCrawl == <<fvars, dvars, svars>>
notSearch == <<fvars, cvars, dvars>>
\* (no action changes which instances the run has)
notCache == <<fvars, cvars, svars, instances>>
\* the history variables of the cache store
marks == <<loaded, lastOk, persistEnd, established>>

Min(a, b) == IF a < b THEN a ELSE b

(***************************************************************************)
(* fetch_with_retries                                                      *)
(***************************************************************************)

\* the defaults of the parameters initial_delay and max_delay
initial_delay == 1
max_delay == 60

\* how many 429 responses one call is given, at most
MaxRetries == 8

Methods == {"GET", "POST"}

\* What one request attempt can end in: a response with a status and a body,
\* a low-level transport error (aiohttp.ClientError), or the expiry of
\* ClientTimeout(total=60) (asyncio.TimeoutError, which is no ClientError).
Statuses == {200, 404, 429, 500}
Bodies == {"json", "bad_content_type", "bad_json"}
NoResp == [kind |-> "none", status |-> 0, body |-> "none"]
Responses ==
  [kind : {"status"}, status : Statuses, body : Bodies]
    \cup {[kind |-> "transport_error", status |-> 0, body |-> "none"],
          [kind |-> "timeout", status |-> 0, body |-> "none"]}

\* response.raise_for_status() raises ClientResponseError for a status >= 400
RaisesForStatus(status) == status >= 400

\* faulty variant: every HTTP error status is retried like a 429
OnClientResponseErrorRetryAll(status) == "sleep"

\* except aiohttp.ClientResponseError: retry on 429, otherwise return None
OnClientResponseError(status) == IF status = 429 THEN "sleep" ELSE "null"

\* What the loop body does with one attempt's outcome: "sleep" (429: sleep and
\* continue), "json" (return await response.json()), "null" (return None), or
\* "raise" (an exception neither except clause catches).
Disposition(resp) ==
  CASE resp.kind = "transport_error" -> "null"
    [] resp.kind = "timeout" -> "raise"
    [] resp.kind = "status" ->
         IF resp.status = 429 THEN "sleep"
         ELSE IF RaisesForStatus(resp.status)
           THEN OnClientResponseError(resp.status)
         ELSE CASE resp.body = "json" -> "json"
                \* aiohttp.ContentTypeError is a ClientResponseError
                [] resp.body = "bad_content_type" ->
                     OnClientResponseError(resp.status)
                \* json.JSONDecodeError is a ValueError
                [] resp.body = "bad_json" -> "raise"

\* faulty variant: the doubling without its cap
NextDelayUncapped(d) == d * 2

\* delay = min(delay * 2, max_delay)
NextDelay(d) == Min(d * 2, max_delay)

FetchParked ==
  /\ fpc = "idle"
  /\ fmethod = "GET"
  /\ delay = initial_delay
  /\ sleeps = <<>>
  /\ issued = <<>>
  /\ lastResp = NoResp
  /\ fresult = "none"


\* a caller calls fetch_with_retries(url, headers, method): delay = initial_delay
FetchCall(m) ==
  /\ fpc = "idle"
  /\ fpc' = "request"
  /\ fmethod' = m
  /\ delay' = initial_delay
  /\ sleeps' = <<>>
  /\ issued' = <<>>
  /\ lastResp' = NoResp
  /\ fresult' = "none"
  /\ UNCHANGED notFetch

\* one pass of the while loop up to its sleep, return or raise
Request(resp) ==
  /\ fpc = "request"
  /\ resp.kind = "status" /\ resp.status = 429 => Len(sleeps) < MaxRetries
  /\ issued' = Append(issued, fmethod)
  /\ lastResp' = resp
  /\ LET d == Disposition(resp) IN
       /\ fpc' = CASE d = "sleep" -> "sleep"
                   [] d = "raise" -> "raised"
                   [] OTHER -> "returned"
       /\ fresult' = CASE d = "sleep" -> "none"
                       [] d = "raise" -> "exception"
                       [] OTHER -> d
  /\ UNCHANGED <<fmethod, delay, sleeps>>
  /\ UNCHANGED notFetch

\* await asyncio.sleep(delay); delay = min(delay * 2, max_delay); continue
Sleep ==
  /\ fpc = "sleep"
  /\ sleeps' = Append(sleeps, delay)
  /\ delay' = NextDelay(delay)
  /\ fpc' = "request"
  /\ UNCHANGED <<fmethod, issued, lastResp, fresult>>
  /\ UNCHANGED notFetch

\* the caller has taken the result; the next call starts afresh
FetchDone ==
  /\ fpc \in {"returned", "raised"}
  /\ fpc' = "idle"
  /\ fmethod' = "GET"
  /\ delay' = initial_delay
  /\ sleeps' = <<>>
  /\ issued' = <<>>
  /\ lastResp' = NoResp
  /\ fresult' = "none"
  /\ UNCHANGED notFetch

FetchNext ==
  \/ \E m \in Methods : FetchCall(m)
  \/ \E resp \in Responses : Request(resp)
  \/ Sleep
  \/ FetchDone

(***************************************************************************)
(* search_questions                                                        *)
(***************************************************************************)

\* asyncio.Semaphore(5)
SemaphoreSlots == 5

\* the number of chapters of the subject
NumChapters == 6

AllChapters == 1..NumChapters

\* The remote data: what fetch_question_details gives for each question of a
\* chapter's detail, in listing order: a detail whose text holds the keyword
\* ("match"), one whose text does not ("nomatch"), or None ("null").
ChapterQuestions(c) ==
  CASE c = 1 -> <<"match">>
    [] c = 2 -> <<"nomatch", "match">>
    [] c = 3 -> <<"null">>
    [] c = NumChapters -> <<"match">>
    [] OTHER -> <<"nomatch">>

CrawlParked ==
  /\ mpc = "listing"
  /\ chapters = {}
  /\ tpc = [c \in AllChapters |-> "none"]
  /\ qi = [c \in AllChapters |-> 0]
  /\ semValue = SemaphoreSlots
  /\ semWaiters = <<>>
  /\ matching_questions = <<>>
  /\ gatherExc = FALSE
  /\ result = <<>>


\* a task holds a semaphore slot from its acquire to the end of its
\* "async with semaphore" block
Holding(c) == tpc[c] \in {"woken", "detail", "questions"}

\* chapters = await list_chapters(...); if not chapters: return []; otherwise
\* the semaphore and the list are set up and gather creates one task a chapter
ListChapters(n) ==
  /\ mpc = "listing"
  /\ chapters' = 1..n
  /\ IF n = 0
       THEN /\ mpc' = "returned"
            /\ tpc' = tpc
       ELSE /\ mpc' = "gather"
            /\ tpc' = [c \in AllChapters |-> IF c <= n THEN "created" ELSE "none"]
  /\ result' = <<>>
  /\ UNCHANGED <<qi, semValue, semWaiters, matching_questions, gatherExc>>
  /\ UNCHANGED notCrawl

\* faulty variant: the test for a free slot is off by one
SemLockedOffByOne == semValue < 0 \/ semWaiters # <<>>

\* Semaphore.locked(): no slot is free, or another task is already waiting
SemLocked == semValue = 0 \/ semWaiters # <<>>

\* The first step of a task, in creation order: "async with semaphore" takes a
\* slot and issues the chapter-detail request, or queues behind the holders.
TaskStart(c) ==
  /\ mpc = "gather"
  /\ tpc[c] = "created"
  /\ \A d \in chapters : d < c => tpc[d] # "created"
  /\ IF SemLocked
       THEN /\ semWaiters' = Append(semWaiters, c)
            /\ tpc' = [tpc EXCEPT ![c] = "waiting"]
            /\ UNCHANGED semValue
       ELSE /\ semValue' = semValue - 1
            /\ tpc' = [tpc EXCEPT ![c] = "detail"]
            /\ UNCHANGED semWaiters
  /\ UNCHANGED <<mpc, chapters, qi, matching_questions, gatherExc, result>>
  /\ UNCHANGED notCrawl

\* Semaphore.release() by task c, which ends in state `end`: the value goes up
\* by one and _wake_up_next hands the slot to the first waiter, if any.
SemRelease(c, end) ==
  IF semWaiters = <<>>
    THEN /\ semValue' = semValue + 1
         /\ tpc' = [tpc EXCEPT ![c] = end]
         /\ UNCHANGED semWaiters
    ELSE /\ semValue' = semValue
         /\ tpc' = [tpc EXCEPT ![c] = end, ![Head(semWaiters)] = "woken"]
         /\ semWaiters' = Tail(semWaiters)

\* gather's tasks are all ready when search_questions awaits the gather, and
\* the loop runs every ready task's first step before it polls for I/O: no
\* response arrives before the last task has started
AllStarted == \A c \in chapters : tpc[c] # "created"

\* a woken waiter runs again: it leaves acquire and issues its detail request
TaskResume(c) ==
  /\ mpc = "gather"
  /\ AllStarted
  /\ tpc[c] = "woken"
  /\ tpc' = [tpc EXCEPT ![c] = "detail"]
  /\ UNCHANGED <<mpc, chapters, qi, semValue, semWaiters, matching_questions,
                 gatherExc, result>>
  /\ UNCHANGED notCrawl

\* response = await fetch_with_retries(url, HEADERS) ends: with a detail
\* ("json"), with None ("null"), or by raising ("raise")
DetailResponse(c, outcome) ==
  /\ mpc = "gather"
  /\ AllStarted
  /\ tpc[c] = "detail"
  /\ CASE outcome = "json" /\ ChapterQuestions(c) # <<>> ->
            /\ tpc' = [tpc EXCEPT ![c] = "questions"]
            /\ UNCHANGED <<semValue, semWaiters, gatherExc>>
       [] outcome = "raise" ->
            /\ SemRelease(c, "failed")
            /\ gatherExc' = TRUE
       [] OTHER ->
            /\ SemRelease(c, "done")
            /\ UNCHANGED gatherExc
  /\ UNCHANGED <<mpc, chapters, qi, matching_questions, result>>
  /\ UNCHANGED notCrawl

\* One pass of "for question_id in questions": fetch_question_details gives
\* the question's detail or None, or raises; a match is appended to
\* matching_questions (and written to the chapter's file); the task leaves
\* the semaphore block after its last question or on an exception.
QuestionStep(c, raises) ==
  /\ mpc = "gather"
  /\ AllStarted
  /\ tpc[c] = "questions"
  /\ IF raises
       THEN /\ SemRelease(c, "failed")
            /\ gatherExc' = TRUE
            /\ UNCHANGED <<qi, matching_questions>>
       ELSE /\ qi' = [qi EXCEPT ![c] = @ + 1]
            /\ matching_questions' =
                 IF ChapterQuestions(c)[qi[c] + 1] = "match"
                   THEN Append(matching_questions, <<c, qi[c] + 1>>)
                   ELSE matching_questions
            /\ IF qi[c] + 1 = Len(ChapterQuestions(c))
                 THEN SemRelease(c, "done")
                 ELSE UNCHANGED <<tpc, semValue, semWaiters>>
            /\ UNCHANGED gatherExc
  /\ UNCHANGED <<mpc, chapters, result>>
  /\ UNCHANGED notCrawl

\* Whether await asyncio.gather(*tasks) is over: gather (return_exceptions
\* left False) passes the first exception of a task on to its awaiter at
\* once; without one it ends when every task is done.
AllTasksDone == \A c \in chapters : tpc[c] = "done"
GatherOver == gatherExc \/ AllTasksDone

\* search_questions resumes after the gather (the except block logs the
\* exception) and returns matching_questions; run_until_complete then stops
\* the loop, so no task takes another step.
GatherReturn ==
  /\ mpc = "gather"
  /\ GatherOver
  /\ mpc' = "returned"
  /\ result' = matching_questions
  /\ UNCHANGED <<chapters, tpc, qi, semValue, semWaiters, matching_questions,
                 gatherExc>>
  /\ UNCHANGED notCrawl

CrawlNext ==
  \/ \E n \in {0, NumChapters} : ListChapters(n)
  \/ \E c \in chapters : TaskStart(c)
  \/ \E c \in chapters : TaskResume(c)
  \/ \E c \in chapters, o \in {"json", "null", "raise"} : DetailResponse(c, o)
  \/ \E c \in chapters, r \in BOOLEAN : QuestionStep(c, r)
  \/ GatherReturn

(***************************************************************************)
(* The cache store: files, JSON, load                                      *)
(***************************************************************************)

\* The keys a crawl can put ("question_<id>", a chapter-list key).  A cache is
\* the set of its keys: the value of a key is the remote detail of that key.
Keys == {"k1", "k2"}
KeyOrder == <<"k1", "k2">>

\* The instances of the application and their threads that persist: the
\* crawl thread (SearchThread) and the GUI thread (the 60 s backup_timer and
\* aboutToQuit).  A run has either the one instance p1 with both its threads
\* ("threads") or the two instances p1 and p2 with their crawl threads
\* ("processes").
Procs == {"p1", "p2"}
Threads == {"p1.crawl", "p1.timer", "p2.crawl"}
CrawlThreads == {"p1.crawl", "p2.crawl"}
ProcOf(t) == IF t = "p2.crawl" THEN "p2" ELSE "p1"
Runs == {"threads", "processes"}

\* how many process starts one run of the model has (the first start of each
\* process and the restarts after a kill)
MaxStarts == 2

\* A file is absent, or holds a sequence of tokens: "{", a key (standing for
\* the entry "key": value), "}", "0" (a NUL of a hole left by a write
\* beyond the end of the file), or "xFF" (a byte that is not UTF-8 text).
NoFile == [exists |-> FALSE, data |-> <<>>]
File(d) == [exists |-> TRUE, data |-> d]

\* the entries of cache c in the order json.dump writes them
RECURSIVE Entries(_, _)
Entries(c, i) ==
  IF i > Len(KeyOrder) THEN <<>>
  ELSE (IF KeyOrder[i] \in c THEN <<KeyOrder[i]>> ELSE <<>>) \o Entries(c, i + 1)

\* faulty variant: the text holds the first entry only
SerializeFirstEntry(c) ==
  <<"{">> \o (IF Entries(c, 1) = <<>> THEN <<>> ELSE <<Entries(c, 1)[1]>>)
        \o <<"}">>

\* json.dump(cache_copy, f, indent=2): the text of the cache
Serialize(c) == <<"{">> \o Entries(c, 1) \o <<"}">>

\* json.load's scan of the entries of an object from token i on: it ends at
\* the closing brace, which must be the last token
RECURSIVE ParseEntries(_, _, _)
ParseEntries(d, i, acc) ==
  IF i > Len(d) THEN [exc |-> "JSONDecodeError", value |-> {}]
  ELSE IF d[i] = "}"
    THEN IF i = Len(d) THEN [exc |-> "none", value |-> acc]
         ELSE [exc |-> "JSONDecodeError", value |-> {}]
  ELSE IF d[i] \in Keys THEN ParseEntries(d, i + 1, acc \cup {d[i]})
  ELSE [exc |-> "JSONDecodeError", value |-> {}]

\* with open(path, "r") as f: return json.load(f)
json_load(f) ==
  IF ~f.exists THEN [exc |-> "FileNotFoundError", value |-> {}]
  ELSE IF \E i \in 1..Len(f.data) : f.data[i] = "xFF"
    THEN [exc |-> "UnicodeDecodeError", value |-> {}]
  ELSE IF f.data = <<>> \/ f.data[1] # "{"
    THEN [exc |-> "JSONDecodeError", value |-> {}]
  ELSE ParseEntries(f.data, 2, {})

\* faulty variant: an unusable primary gives the empty cache at once
load_cache_no_fallback(cache_file, backup_file) ==
  IF json_load(cache_file).exc = "none" THEN json_load(cache_file).value
  ELSE {}

\* load_cache_with_fallback(cache_file, backup_file)
load_cache_with_fallback(cache_file, backup_file) ==
  IF json_load(cache_file).exc = "none" THEN json_load(cache_file).value
  ELSE IF json_load(backup_file).exc = "none" THEN json_load(backup_file).value
  ELSE {}

\* except (json.JSONDecodeError, FileNotFoundError): what both handlers of
\* load_cache_with_fallback catch
Caught == {"JSONDecodeError", "FileNotFoundError"}

\* the exception load_cache_with_fallback lets through to its caller, "none"
\* when it returns
load_exception(cache_file, backup_file) ==
  IF json_load(cache_file).exc = "none" THEN "none"
  ELSE IF json_load(cache_file).exc \notin Caught THEN json_load(cache_file).exc
  ELSE IF json_load(backup_file).exc = "none" THEN "none"
  ELSE IF json_load(backup_file).exc \notin Caught THEN json_load(backup_file).exc
  ELSE "none"

\* A text reaches its file in two writes: all of it but its last token, then
\* the last token.
FirstChunk(text) == SubSeq(text, 1, Len(text) - 1)
\* the piece a writer at offset off writes next
NextChunk(text, off) ==
  IF off = 0 /\ Len(text) > 1 THEN FirstChunk(text)
  ELSE SubSeq(text, off + 1, Len(text))

\* a write of the tokens chunk at offset off of a file holding d: the file
\* grows, with NULs, up to the offset when it is shorter
WriteAt(d, off, chunk) ==
  [i \in 1..(IF Len(d) > off + Len(chunk) THEN Len(d) ELSE off + Len(chunk)) |->
     IF i > off /\ i <= off + Len(chunk) THEN chunk[i - off]
     ELSE IF i <= Len(d) THEN d[i] ELSE "0"]

\* What the disk holds when the application is first started: nothing, the
\* files of earlier runs, a primary (and backup) cut short by a crash, or a
\* primary with a damaged byte.
InitDisk ==
  { <<NoFile, NoFile>>,
    <<File(<<"{", "xFF", "}">>), File(Serialize({"k1"}))>>,
    <<File(Serialize({"k1"})), File(Serialize({}))>>,
    <<File(<<"{", "k1">>), File(Serialize({"k1"}))>>,
    <<NoFile, File(Serialize({"k1"}))>>,
    <<File(<<"{", "k1">>), File(<<"{">>)>>,
    <<File(<<>>), NoFile>> }

\* no process runs, no file is open, no lock is held
CacheQuiet ==
  /\ temp = NoFile
  /\ fileLock = "none"
  /\ alive = [p \in Procs |-> FALSE]
  /\ starts = 0
  /\ cache = [p \in Procs |-> {}]
  /\ cacheLock = [p \in Procs |-> "none"]
  /\ ppc = [t \in Threads |-> "down"]
  /\ callKeys = [t \in Threads |-> {}]
  /\ cache_copy = [t \in Threads |-> {}]
  /\ acquired = [t \in Threads |-> FALSE]
  /\ failed = [t \in Threads |-> FALSE]
  /\ wfile = [t \in Threads |-> "none"]
  /\ wpos = [t \in Threads |-> 0]
  /\ copybuf = [t \in Threads |-> <<>>]
  /\ loaded = [exc |-> "none", value |-> {}]
  /\ lastOk = [at |-> 0, value |-> {}]
  /\ persistEnd = [t \in Threads |-> "none"]
  /\ established = FALSE

CacheParked ==
  /\ primary = NoFile
  /\ backup = NoFile
  /\ snapshots = {}
  /\ instances = "threads"
  /\ CacheQuiet

\* the caches whose complete image a file of an earlier run holds
Persisted(f) ==
  IF json_load(f).exc = "none" THEN {json_load(f).value} ELSE {}

CacheInit ==
  /\ \E d \in InitDisk :
       /\ primary = d[1]
       /\ backup = d[2]
       /\ snapshots = Persisted(d[1]) \cup Persisted(d[2])
  /\ instances \in Runs
  /\ CacheQuiet

(***************************************************************************)
(* The cache store: start, put, persist, kill                              *)
(***************************************************************************)

\* QuestionSearchApp.__init__: self.cache = load_cache_with_fallback(...);
\* an exception of the load ends the process before its window is shown
Start(p) ==
  /\ ~alive[p]
  /\ p = "p2" => instances = "processes"
  /\ starts < MaxStarts
  /\ starts' = starts + 1
  /\ IF load_exception(primary, backup) = "none"
       THEN /\ alive' = [alive EXCEPT ![p] = TRUE]
            /\ cache' = [cache EXCEPT ![p] =
                            load_cache_with_fallback(primary, backup)]
            /\ ppc' = [t \in Threads |->
                         IF ProcOf(t) = p THEN "idle" ELSE ppc[t]]
            /\ loaded' = [exc |-> "none",
                          value |-> load_cache_with_fallback(primary, backup)]
            /\ established' =
                 (established \/ load_cache_with_fallback(primary, backup) # {})
       ELSE /\ loaded' = [exc |-> load_exception(primary, backup),
                          value |-> {}]
            /\ UNCHANGED <<alive, cache, ppc, established>>
  /\ UNCHANGED <<files, fileLock, cacheLock, callKeys, cache_copy, acquired,
                 failed, wfile, wpos, copybuf, snapshots, lastOk, persistEnd>>
  /\ UNCHANGED notCache

\* fetch_question_details / list_chapters after a fetch on a cache miss:
\* with cache_lock: cache[cache_key] = ...; then save_cache_with_backup is
\* called
Put(t, k) ==
  /\ t \in CrawlThreads
  /\ ppc[t] = "idle"
  /\ k \notin cache[ProcOf(t)]
  /\ cacheLock[ProcOf(t)] = "none"
  /\ cache' = [cache EXCEPT ![ProcOf(t)] = @ \cup {k}]
  /\ callKeys' = [callKeys EXCEPT ![t] = cache[ProcOf(t)] \cup {k}]
  /\ ppc' = [ppc EXCEPT ![t] = "call"]
  /\ persistEnd' = [persistEnd EXCEPT ![t] = "none"]
  /\ UNCHANGED <<files, fileLock, alive, starts, cacheLock, cache_copy,
                 acquired, failed, wfile, wpos, copybuf, snapshots, loaded,
                 lastOk, established>>
  /\ UNCHANGED notCache

\* backup_timer.timeout / aboutToQuit: save_cache_with_backup(self.cache, ...)
TimerFire(t) ==
  /\ t \notin CrawlThreads
  /\ instances = "threads"
  /\ ppc[t] = "idle"
  /\ callKeys' = [callKeys EXCEPT ![t] = cache[ProcOf(t)]]
  /\ ppc' = [ppc EXCEPT ![t] = "call"]
  /\ persistEnd' = [persistEnd EXCEPT ![t] = "none"]
  /\ UNCHANGED <<files, fileLock, alive, starts, cache, cacheLock, cache_copy,
                 acquired, failed, wfile, wpos, copybuf, snapshots, loaded,
                 lastOk, established>>
  /\ UNCHANGED notCache

\* save_cache_with_backup: with cache_lock: if os.path.exists(cache_file)
EnterPersist(t) ==
  /\ ppc[t] = "call"
  /\ cacheLock[ProcOf(t)] = "none"
  /\ cacheLock' = [cacheLock EXCEPT ![ProcOf(t)] = t]
  /\ ppc' = [ppc EXCEPT ![t] = IF primary.exists THEN "copy_open" ELSE "atomic"]
  /\ lastOk' = [at |-> 0, value |-> {}]
  /\ UNCHANGED <<files, fileLock, alive, starts, cache, callKeys, cache_copy,
                 acquired, failed, wfile, wpos, copybuf, snapshots, loaded,
                 persistEnd, established>>
  /\ UNCHANGED notCache

\* shutil.copy(cache_file, backup_file) opens the primary for reading and the
\* backup for writing, which truncates it
CopyOpen(t) ==
  /\ ppc[t] = "copy_open"
  /\ backup' = File(<<>>)
  /\ IF primary.data = <<>>
       THEN /\ ppc' = [ppc EXCEPT ![t] = "atomic"]
            /\ UNCHANGED <<copybuf, wfile>>
       ELSE /\ ppc' = [ppc EXCEPT ![t] = "copy"]
            /\ copybuf' = [copybuf EXCEPT ![t] = primary.data]
            /\ wfile' = [wfile EXCEPT ![t] = "backup"]
  /\ UNCHANGED <<primary, temp, fileLock, alive, starts, cache, cacheLock,
                 callKeys, cache_copy, acquired, failed, wpos, snapshots>>
  /\ UNCHANGED <<marks, notCache>>

\* shutil.copy writes the next piece of what it read to the backup
CopyWrite(t) ==
  /\ ppc[t] = "copy"
  /\ backup' = File(WriteAt(backup.data, wpos[t], NextChunk(copybuf[t], wpos[t])))
  /\ IF wpos[t] + Len(NextChunk(copybuf[t], wpos[t])) = Len(copybuf[t])
       THEN /\ ppc' = [ppc EXCEPT ![t] = "atomic"]
            /\ wpos' = [wpos EXCEPT ![t] = 0]
            /\ copybuf' = [copybuf EXCEPT ![t] = <<>>]
            /\ wfile' = [wfile EXCEPT ![t] = "none"]
       ELSE /\ wpos' = [wpos EXCEPT ![t] = @ + Len(NextChunk(copybuf[t], @))]
            /\ UNCHANGED <<ppc, copybuf, wfile>>
  /\ UNCHANGED <<primary, temp, fileLock, alive, starts, cache, cacheLock,
                 callKeys, cache_copy, acquired, failed, snapshots>>
  /\ UNCHANGED <<marks, notCache>>

\* save_cache_atomic: cache_copy = json.loads(json.dumps(cache)), then
\* lock.acquire(timeout=10) gets the lock
AcquireLock(t) ==
  /\ ppc[t] = "atomic"
  /\ fileLock = "none"
  /\ fileLock' = t
  /\ acquired' = [acquired EXCEPT ![t] = TRUE]
  /\ cache_copy' = [cache_copy EXCEPT ![t] = cache[ProcOf(t)]]
  /\ ppc' = [ppc EXCEPT ![t] = "open_temp"]
  /\ UNCHANGED <<files, alive, starts, cache, cacheLock, callKeys, failed,
                 wfile, wpos, copybuf, snapshots>>
  /\ UNCHANGED <<marks, notCache>>

\* lock.acquire(timeout=10) gives up while another process holds the lock:
\* InterProcessLock.acquire returns False, and the code goes on
AcquireTimeout(t) ==
  /\ ppc[t] = "atomic"
  /\ fileLock # "none"
  /\ acquired' = [acquired EXCEPT ![t] = FALSE]
  /\ cache_copy' = [cache_copy EXCEPT ![t] = cache[ProcOf(t)]]
  /\ ppc' = [ppc EXCEPT ![t] = "open_temp"]
  /\ UNCHANGED <<files, fileLock, alive, starts, cache, cacheLock, callKeys,
                 failed, wfile, wpos, copybuf, snapshots>>
  /\ UNCHANGED <<marks, notCache>>

\* with open(temp_file, "w") creates the temporary file or truncates it
OpenTemp(t) ==
  /\ ppc[t] = "open_temp"
  /\ temp' = File(<<>>)
  /\ wfile' = [wfile EXCEPT ![t] = "temp"]
  /\ wpos' = [wpos EXCEPT ![t] = 0]
  /\ ppc' = [ppc EXCEPT ![t] = "write_temp"]
  /\ UNCHANGED <<primary, backup, fileLock, alive, starts, cache, cacheLock,
                 callKeys, cache_copy, acquired, failed, copybuf, snapshots>>
  /\ UNCHANGED <<marks, notCache>>

\* json.dump(cache_copy, f, indent=2) writes the next piece of the text to the
\* file its descriptor refers to: the temporary file, or the file that was the
\* temporary file when it was opened and has been renamed since
WriteTemp(t) ==
  /\ ppc[t] = "write_temp"
  /\ LET tok == NextChunk(Serialize(cache_copy[t]), wpos[t]) IN
       /\ temp' = IF wfile[t] = "temp"
                    THEN File(WriteAt(temp.data, wpos[t], tok)) ELSE temp
       /\ primary' = IF wfile[t] = "primary"
                       THEN File(WriteAt(primary.data, wpos[t], tok))
                       ELSE primary
  /\ IF wpos[t] + Len(NextChunk(Serialize(cache_copy[t]), wpos[t]))
         = Len(Serialize(cache_copy[t]))
       THEN /\ ppc' = [ppc EXCEPT ![t] = "replace"]
            /\ wpos' = [wpos EXCEPT ![t] = 0]
            /\ wfile' = [wfile EXCEPT ![t] = "none"]
       ELSE /\ wpos' = [wpos EXCEPT ![t] =
                            @ + Len(NextChunk(Serialize(cache_copy[t]), @))]
            /\ UNCHANGED <<ppc, wfile>>
  /\ UNCHANGED <<backup, fileLock, alive, starts, cache, cacheLock, callKeys,
                 cache_copy, acquired, failed, copybuf, snapshots>>
  /\ UNCHANGED <<marks, notCache>>

\* json.dump's write fails with an OSError (the disk is full; a case of the
\* run of one instance): the with block closes the file, which keeps what
\* was written, and the exception goes to the finally block
WriteFail(t) ==
  /\ ppc[t] = "write_temp"
  /\ instances = "threads"
  /\ failed' = [failed EXCEPT ![t] = TRUE]
  /\ wfile' = [wfile EXCEPT ![t] = "none"]
  /\ wpos' = [wpos EXCEPT ![t] = 0]
  /\ ppc' = [ppc EXCEPT ![t] = "release"]
  /\ UNCHANGED <<files, fileLock, alive, starts, cache, cacheLock, callKeys,
                 cache_copy, acquired, copybuf, snapshots>>
  /\ UNCHANGED <<marks, notCache>>

\* os.replace(temp_file, cache_file): the temporary file becomes the primary;
\* FileNotFoundError when there is no temporary file
Replace(t) ==
  /\ ppc[t] = "replace"
  /\ IF temp.exists
       THEN /\ primary' = temp
            /\ temp' = NoFile
            /\ wfile' = [u \in Threads |->
                 CASE wfile[u] = "temp" -> "primary"
                   [] wfile[u] = "primary" -> "gone"
                   [] OTHER -> wfile[u]]
            /\ snapshots' = snapshots \cup Persisted(temp)
            /\ UNCHANGED failed
       ELSE /\ failed' = [failed EXCEPT ![t] = TRUE]
            /\ UNCHANGED <<primary, temp, wfile, snapshots>>
  /\ ppc' = [ppc EXCEPT ![t] = "release"]
  /\ UNCHANGED <<backup, fileLock, alive, starts, cache, cacheLock, callKeys,
                 cache_copy, acquired, wpos, copybuf>>
  /\ UNCHANGED <<marks, notCache>>

\* whether the persist of thread t, at its release, returns without raising:
\* lock.release() raises ThreadError when the lock was not acquired
ReturnsOk(t) == acquired[t] /\ ~failed[t]

\* how the persist of thread t, at its release, ends
Ending(t) ==
  IF ~acquired[t] THEN "ThreadError"
  ELSE IF failed[t] THEN "OSError"
  ELSE "ok"

\* what the end of the persist of thread t leaves in the thread and in the
\* history variables
Leave(t) ==
  /\ cacheLock' = [cacheLock EXCEPT ![ProcOf(t)] = "none"]
  /\ ppc' = [ppc EXCEPT ![t] = "idle"]
  /\ acquired' = [acquired EXCEPT ![t] = FALSE]
  /\ failed' = [failed EXCEPT ![t] = FALSE]
  /\ cache_copy' = [cache_copy EXCEPT ![t] = {}]
  /\ callKeys' = [callKeys EXCEPT ![t] = {}]
  /\ persistEnd' = [persistEnd EXCEPT ![t] = Ending(t)]
  /\ lastOk' = IF ReturnsOk(t) THEN [at |-> starts, value |-> cache_copy[t]]
                ELSE lastOk
  /\ established' = (established \/ ReturnsOk(t))
  /\ UNCHANGED <<files, alive, starts, cache, wfile, wpos, copybuf, snapshots,
                 loaded>>
  /\ UNCHANGED notCache

\* faulty variant: the lock is released only when the persist succeeded
ReleaseOnSuccessOnly(t) ==
  /\ ppc[t] = "release"
  /\ fileLock' = IF ReturnsOk(t) THEN "none" ELSE fileLock
  /\ Leave(t)

\* finally: lock.release(); the with cache_lock block ends and
\* save_cache_with_backup returns or raises
Release(t) ==
  /\ ppc[t] = "release"
  /\ fileLock' = IF acquired[t] THEN "none" ELSE fileLock
  /\ Leave(t)

\* process p is killed: its threads and its memory are gone, its descriptors
\* are closed and the operating system drops the lock it held
Kill(p) ==
  /\ alive[p]
  /\ alive' = [alive EXCEPT ![p] = FALSE]
  /\ cache' = [cache EXCEPT ![p] = {}]
  /\ cacheLock' = [cacheLock EXCEPT ![p] = "none"]
  /\ fileLock' = IF fileLock # "none" /\ ProcOf(fileLock) = p
                   THEN "none" ELSE fileLock
  /\ ppc' = [t \in Threads |-> IF ProcOf(t) = p THEN "down" ELSE ppc[t]]
  /\ callKeys' = [t \in Threads |-> IF ProcOf(t) = p THEN {} ELSE callKeys[t]]
  /\ cache_copy' =
       [t \in Threads |-> IF ProcOf(t) = p THEN {} ELSE cache_copy[t]]
  /\ acquired' =
       [t \in Threads |-> IF ProcOf(t) = p THEN FALSE ELSE acquired[t]]
  /\ failed' = [t \in Threads |-> IF ProcOf(t) = p THEN FALSE ELSE failed[t]]
  /\ wfile' = [t \in Threads |-> IF ProcOf(t) = p THEN "none" ELSE wfile[t]]
  /\ wpos' = [t \in Threads |-> IF ProcOf(t) = p THEN 0 ELSE wpos[t]]
  /\ copybuf' = [t \in Threads |-> IF ProcOf(t) = p THEN <<>> ELSE copybuf[t]]
  /\ persistEnd' =
       [t \in Threads |-> IF ProcOf(t) = p THEN "none" ELSE persistEnd[t]]
  /\ UNCHANGED <<files, starts, snapshots, loaded, lastOk, established>>
  /\ UNCHANGED notCache

CacheNext ==
  \/ \E p \in Procs : Start(p)
  \/ \E t \in Threads, k \in Keys : Put(t, k)
  \/ \E t \in Threads : TimerFire(t)
  \/ \E t \in Threads : EnterPersist(t)
  \/ \E t \in Threads : CopyOpen(t)
  \/ \E t \in Threads : CopyWrite(t)
  \/ \E t \in Threads : AcquireLock(t)
  \/ \E t \in Threads : AcquireTimeout(t)
  \/ \E t \in Threads : OpenTemp(t)
  \/ \E t \in Threads : WriteTemp(t)
  \/ \E t \in Threads : WriteFail(t)
  \/ \E t \in Threads : Replace(t)
  \/ \E t \in Threads : Release(t)
  \/ \E p \in Procs : Kill(p)

(***************************************************************************)
(* One search in detail: list_chapters, fetch_question_details, the        *)
(* progress callback and the output files                                  *)
(***************************************************************************)

\* how many searches run_search starts in one run of the application
MaxSearches == 2

\* The subject has two chapters, fewer than the semaphore has slots, so no
\* task waits for a slot.  Chapter 1 lists the questions 2 and 1, chapter 2
\* the questions 3 and 2; the text of questions 1 and 2 holds the keywords.
SearchChapters == {1, 2}
QuestionIds == {1, 2, 3}
QuestionsOf(c) == IF c = 1 THEN <<2, 1>> ELSE <<3, 2>>
Matches(q) == q \in {1, 2}

\* the titles the remote can give a chapter, as sequences of characters
Titles == {<<"a", " ", "b">>, <<"a", "_", "b">>, <<"c">>}

\* f"matching_questions_{subject_id}_{chapter_title}.json".replace(" ", "_"):
\* the part of the path that comes from the title (the folder, the prefix,
\* the subject id and the suffix are the same for all chapters of a search)
OutputPath(title) ==
  [i \in 1..Len(title) |-> IF title[i] = " " THEN "_" ELSE title[i]]
Paths == {OutputPath(title) : title \in Titles}

\* what fetch_with_retries can give list_chapters: a JSON object with a
\* non-empty "data" list, with an empty one, without "data", the empty
\* object, null, or an exception
ListResponses ==
  {"chapters", "empty_data", "no_data", "empty_object", "null", "raise"}

\* faulty variant: only a non-empty chapter list is cached
CachesNonEmptyOnly(resp) == resp = "chapters"

\* if chapters: (the response is neither null nor the empty object)
Caches(resp) == resp \in {"chapters", "empty_data", "no_data"}

\* chapters.get("data", [])
DataOf(resp) == IF resp = "chapters" THEN "full" ELSE "empty"

\* no search has run
SearchQuiet ==
  /\ searchPc = "idle"
  /\ searches = 0
  /\ listResp = "none"
  /\ listRequests = 0
  /\ questionCache = {}
  /\ requests = [q \in QuestionIds |-> 0]
  /\ taskPc = [c \in SearchChapters |-> "none"]
  /\ processed = [c \in SearchChapters |-> 0]
  /\ found = <<>>
  /\ progress = 0
  /\ outFiles = [p \in Paths |-> 0]
  /\ wrote = [p \in Paths |-> {}]
  /\ detailed = {}
  /\ taskExc = [c \in SearchChapters |-> "none"]
  /\ searchExc = "none"

SearchParked ==
  /\ chapterList = "absent"
  /\ titles = [c \in SearchChapters |-> <<"c">>]
  /\ SearchQuiet

\* the application has started: the cache it loaded holds the chapter list
\* or not, and prepare_results_folder has emptied the results folder
SearchInit ==
  /\ chapterList \in {"absent", "full"}
  /\ titles \in [SearchChapters -> Titles]
  /\ SearchQuiet

\* search_questions after list_chapters returned list: "if not chapters:
\* return []", else the tasks are created and gathered, and each task takes
\* its semaphore slot and awaits its chapter detail
AfterListing(list) ==
  IF list = "full"
    THEN /\ searchPc' = "gather"
         /\ taskPc' = [c \in SearchChapters |-> "detail"]
    ELSE /\ searchPc' = "returned"
         /\ taskPc' = [c \in SearchChapters |-> "none"]

\* run_search starts a SearchThread, which runs search_questions up to the
\* first await of list_chapters: a cached chapter list is returned at once,
\* else the request is issued
NewSearch ==
  /\ searchPc \in {"idle", "returned", "raised"}
  /\ searches < MaxSearches
  /\ searches' = searches + 1
  /\ listResp' = "none"
  /\ processed' = [c \in SearchChapters |-> 0]
  /\ found' = <<>>
  /\ progress' = 0
  /\ wrote' = [p \in Paths |-> {}]
  /\ detailed' = {}
  /\ taskExc' = [c \in SearchChapters |-> "none"]
  /\ searchExc' = "none"
  /\ IF chapterList # "absent"
       THEN /\ AfterListing(chapterList)
            /\ UNCHANGED listRequests
       ELSE /\ searchPc' = "list_fetch"
            /\ taskPc' = [c \in SearchChapters |-> "none"]
            /\ listRequests' = listRequests + 1
  /\ UNCHANGED <<chapterList, questionCache, requests, titles, outFiles>>
  /\ UNCHANGED notSearch

\* list_chapters after its fetch: "if chapters:" puts the data list in the
\* cache and persists (persistOk: save_cache_with_backup returns; otherwise
\* it raises out of search_questions); then return cache.get(cache_key, [])
ListResponse(resp, persistOk) ==
  /\ searchPc = "list_fetch"
  /\ ~Caches(resp) => persistOk
  /\ listResp' = resp
  /\ chapterList' = IF Caches(resp) THEN DataOf(resp) ELSE chapterList
  /\ IF resp = "raise"
       THEN /\ searchPc' = "raised"
            /\ searchExc' = "fetch"
            /\ UNCHANGED taskPc
       ELSE IF ~persistOk
         THEN /\ searchPc' = "raised"
              /\ searchExc' = "persist"
              /\ UNCHANGED taskPc
         ELSE /\ AfterListing(IF Caches(resp) THEN DataOf(resp) ELSE "empty")
              /\ UNCHANGED searchExc
  /\ UNCHANGED <<searches, listRequests, questionCache, requests, titles,
                 processed, found, progress, outFiles, wrote, detailed,
                 taskExc>>
  /\ UNCHANGED notSearch

\* the question id the loop of chapter c is at
CurrentQuestion(c) == QuestionsOf(c)[processed[c] + 1]

\* process_chapter after "response = await fetch_with_retries(url, HEADERS)":
\* JSON starts the loop over the question ids, null ends the task, an
\* exception of the fetch ends it with that exception
ChapterDetail(c, resp) ==
  /\ searchPc = "gather"
  /\ taskPc[c] = "detail"
  /\ CASE resp = "json" ->
            /\ taskPc' = [taskPc EXCEPT ![c] = "next"]
            /\ detailed' = detailed \cup {c}
            /\ UNCHANGED taskExc
       [] resp = "null" ->
            /\ taskPc' = [taskPc EXCEPT ![c] = "done"]
            /\ UNCHANGED <<detailed, taskExc>>
       [] OTHER ->
            /\ taskPc' = [taskPc EXCEPT ![c] = "failed"]
            /\ taskExc' = [taskExc EXCEPT ![c] = "fetch"]
            /\ UNCHANGED detailed
  /\ UNCHANGED <<searchPc, searches, chapterList, listResp, listRequests,
                 questionCache, requests, titles, processed, found, progress,
                 outFiles, wrote, searchExc>>
  /\ UNCHANGED notSearch

\* the end of one pass of the loop: progress_callback(1), then the next
\* question id, or the end of the task
Advance(c) ==
  /\ progress' = progress + 1
  /\ processed' = [processed EXCEPT ![c] = @ + 1]
  /\ taskPc' = [taskPc EXCEPT ![c] =
                  IF processed[c] + 1 = Len(QuestionsOf(c)) THEN "done"
                  ELSE "next"]

\* "if question_details:" holds for question q: a match is appended to
\* matching_questions and the task awaits the write of its output file;
\* anything else goes to the end of the pass
Examine(c, q) ==
  IF Matches(q)
    THEN /\ found' = Append(found, [chapter |-> c, question |-> q])
         /\ taskPc' = [taskPc EXCEPT ![c] = "writing"]
         /\ UNCHANGED <<progress, processed>>
    ELSE /\ Advance(c)
         /\ UNCHANGED found

\* fetch_question_details up to its await: a detail in the cache is returned
\* at once and examined; else the request is issued
LookUp(c) ==
  /\ searchPc = "gather"
  /\ taskPc[c] = "next"
  /\ IF CurrentQuestion(c) \in questionCache
       THEN /\ Examine(c, CurrentQuestion(c))
            /\ UNCHANGED requests
       ELSE /\ requests' = [requests EXCEPT ![CurrentQuestion(c)] = @ + 1]
            /\ taskPc' = [taskPc EXCEPT ![c] = "fetching"]
            /\ UNCHANGED <<found, progress, processed>>
  /\ UNCHANGED <<searchPc, searches, chapterList, listResp, listRequests,
                 questionCache, titles, outFiles, wrote, detailed, taskExc,
                 searchExc>>
  /\ UNCHANGED notSearch

\* fetch_question_details after its fetch: JSON is put in the cache and
\* persisted (persistOk: save_cache_with_backup returns; otherwise it raises
\* out of fetch_question_details and of the task), then examined; null is
\* not cached; an exception of the fetch ends the task
QuestionResponse(c, resp, persistOk) ==
  /\ searchPc = "gather"
  /\ taskPc[c] = "fetching"
  /\ resp # "json" => persistOk
  /\ CASE resp = "json" ->
            /\ questionCache' = questionCache \cup {CurrentQuestion(c)}
            /\ IF persistOk
                 THEN /\ Examine(c, CurrentQuestion(c))
                      /\ UNCHANGED taskExc
                 ELSE /\ taskPc' = [taskPc EXCEPT ![c] = "failed"]
                      /\ taskExc' = [taskExc EXCEPT ![c] = "persist"]
                      /\ UNCHANGED <<found, progress, processed>>
       [] resp = "null" ->
            /\ Advance(c)
            /\ UNCHANGED <<questionCache, found, taskExc>>
       [] OTHER ->
            /\ taskPc' = [taskPc EXCEPT ![c] = "failed"]
            /\ taskExc' = [taskExc EXCEPT ![c] = "fetch"]
            /\ UNCHANGED <<questionCache, found, progress, processed>>
  /\ UNCHANGED <<searchPc, searches, chapterList, listResp, listRequests,
                 requests, titles, outFiles, wrote, detailed, searchExc>>
  /\ UNCHANGED notSearch

\* async with aio_open(filename, "w") as f: await f.write(json.dumps(
\* question_details)): the file of the chapter's path holds the detail of
\* the match and nothing else; then the end of the pass
WriteOutput(c) ==
  /\ searchPc = "gather"
  /\ taskPc[c] = "writing"
  /\ outFiles' = [outFiles EXCEPT ![OutputPath(titles[c])] = CurrentQuestion(c)]
  /\ wrote' = [wrote EXCEPT ![OutputPath(titles[c])] = @ \cup {c}]
  /\ Advance(c)
  /\ UNCHANGED <<searchPc, searches, chapterList, listResp, listRequests,
                 questionCache, requests, titles, found, detailed, taskExc,
                 searchExc>>
  /\ UNCHANGED notSearch

\* await asyncio.gather(...) is over at the first exception of a task or when
\* all tasks are done; search_questions returns matching_questions and
\* run_until_complete stops the loop, so no task takes another step
SearchGatherOver ==
  \/ \E c \in SearchChapters : taskExc[c] # "none"
  \/ \A c \in SearchChapters : taskPc[c] = "done"

SearchReturn ==
  /\ searchPc = "gather"
  /\ SearchGatherOver
  /\ searchPc' = "returned"
  /\ UNCHANGED <<searches, chapterList, listResp, listRequests, questionCache,
                 requests, titles, taskPc, processed, found, progress, outFiles,
                 wrote, detailed, taskExc, searchExc>>
  /\ UNCHANGED notSearch

SearchNext ==
  \/ NewSearch
  \/ \E resp \in ListResponses, persistOk \in BOOLEAN :
       ListResponse(resp, persistOk)
  \/ \E c \in SearchChapters, resp \in {"json", "null", "raise"} :
       ChapterDetail(c, resp)
  \/ \E c \in SearchChapters : LookUp(c)
  \/ \E c \in SearchChapters, resp \in {"json", "null", "raise"},
        persistOk \in BOOLEAN : QuestionResponse(c, resp, persistOk)
  \/ \E c \in SearchChapters : WriteOutput(c)
  \/ SearchReturn

(***************************************************************************)
(* Specifications                                                          *)
(***************************************************************************)

\* no call of fetch_with_retries is under way; no crawl has started
ParkedInit == FetchParked /\ CrawlParked /\ CacheParked /\ SearchParked

SpecFetch == ParkedInit /\ [][FetchNext]_vars

SpecCrawl == ParkedInit /\ [][CrawlNext]_vars

\* the cache store on a disk left by earlier runs
Init == FetchParked /\ CrawlParked /\ CacheInit /\ SearchParked

Spec == Init /\ [][CacheNext]_vars

\* the application has started and no search has run yet
SearchStart == FetchParked /\ CrawlParked /\ CacheParked /\ SearchInit

SpecSearch == SearchStart /\ [][SearchNext]_vars

(***************************************************************************)
(* Properties of fetch_with_retries (checked under SpecFetch)              *)
(***************************************************************************)

IsRateLimited(resp) == resp.kind = "status" /\ resp.status = 429
IsSuccess(resp) ==
  resp.kind = "status" /\ resp.status < 400 /\ resp.body = "json"
IsNonRetryable(resp) ==
  \/ resp.kind = "transport_error"
  \/ resp.kind = "status" /\ resp.status >= 400 /\ resp.status # 429

\* C3: within one call the i-th sleep after a 429 lasts min(2^(i-1), 60), so
\* the delays start at 1, never decrease and stay at 60; every sleep is
\* followed by another attempt of the same request, a 429 never ends the call
\* however many came before, and the attempt that gets a successful response
\* returns its JSON.
C3_BackoffSchedule ==
  /\ \A i \in 1..Len(sleeps) : sleeps[i] = Min(2^(i - 1), 60)
  /\ \A i \in 1..Len(sleeps) : i > 1 => sleeps[i - 1] <= sleeps[i]
  /\ \A i \in 1..Len(issued) : issued[i] = fmethod
  /\ fpc = "request" => Len(issued) = Len(sleeps)
  /\ fpc \in {"sleep", "returned", "raised"} => Len(issued) = Len(sleeps) + 1
  /\ IsRateLimited(lastResp) => fpc \in {"sleep", "request"}
  /\ IsSuccess(lastResp) => fpc = "returned" /\ fresult = "json"

\* C3 witness: a call that returned JSON after sleeping at the 60-second cap
C3_Witness ==
  /\ fpc = "returned"
  /\ fresult = "json"
  /\ Len(sleeps) >= 8
  /\ sleeps[7] = 60
  /\ sleeps[8] = 60

\* C4: an attempt that ends in a non-429 HTTP error status or in a transport
\* error ends the call with null: the call is returned, no sleep and no
\* further attempt follows that attempt.
C4_NoRetryOnOtherErrors ==
  IsNonRetryable(lastResp) =>
    /\ fpc = "returned"
    /\ fresult = "null"
    /\ Len(issued) = Len(sleeps) + 1

\* C4 witness: a call that returned null on a 500 after three 429 retries
C4_Witness ==
  /\ lastResp.kind = "status"
  /\ lastResp.status = 500
  /\ Len(sleeps) = 3
  /\ fpc = "returned"
  /\ fresult = "null"

\* C5: a call that finishes returns JSON or null; it never raises to its caller
C5_NeverRaises == fpc # "raised" /\ fresult # "exception"

(***************************************************************************)
(* Properties of search_questions (checked under SpecCrawl)                *)
(***************************************************************************)

Range(seq) == {seq[i] : i \in 1..Len(seq)}

\* a task that ran its whole body: it is done, after all its questions or
\* after a chapter detail that gave no questions to process
RanToCompletion(c) ==
  /\ tpc[c] = "done"
  /\ qi[c] \in {0, Len(ChapterQuestions(c))}

\* C1: when search_questions returns, every chapter task other than one that
\* raised has run to completion, and every match it found is in the returned
\* list.
C1_SiblingsComplete ==
  mpc = "returned" =>
    \A c \in chapters :
      tpc[c] # "failed" =>
        /\ RanToCompletion(c)
        /\ \A i \in 1..qi[c] :
             ChapterQuestions(c)[i] = "match" => <<c, i>> \in Range(result)

\* C2: at most 5 chapter tasks hold a semaphore slot at any time, the slots
\* held and the free slots add up to 5, and a task waits only while all 5 are
\* taken.
C2_AtMostFiveInFlight ==
  /\ Cardinality({c \in chapters : Holding(c)}) <= 5
  /\ semValue >= 0
  /\ semValue + Cardinality({c \in chapters : Holding(c)}) = 5
  /\ semWaiters # <<>> => semValue = 0

\* C2 witness: five tasks hold slots after a sixth task failed and handed its
\* slot to the task that was waiting, and another task ended on a null detail
C2_Witness ==
  /\ Cardinality({c \in chapters : Holding(c)}) = 5
  /\ \E c \in chapters : tpc[c] = "failed"
  /\ \E c \in chapters : tpc[c] \in {"woken", "detail"} /\ c > 5

(***************************************************************************)
(* Properties of the cache store (checked under Spec)                      *)
(***************************************************************************)

\* a file that holds a complete JSON object, and the mapping it denotes
IsObjectText(d) ==
  /\ Len(d) >= 2
  /\ d[1] = "{"
  /\ d[Len(d)] = "}"
  /\ \A i \in 2..(Len(d) - 1) : d[i] \in Keys
ValidFile(f) == f.exists /\ IsObjectText(f.data)
ContentOf(f) == {f.data[i] : i \in 2..(Len(f.data) - 1)}

\* thread t is between its open of the temporary file and its rename
WritingTemp(t) == ppc[t] \in {"write_temp", "replace"}

\* C6: whatever the processes do and whenever one is killed, the primary file
\* only ever changes from its old content to the complete text of the cache
\* the replacing persist wrote: it is never a partial or mixed file.
C6_PrimaryOldOrNew ==
  [][primary' # primary =>
       \E t \in Threads :
         /\ ppc[t] = "replace"
         /\ ppc'[t] = "release"
         /\ primary' = File(Serialize(cache_copy[t]))]_vars

\* C7: when a persist returns without raising, the primary file is a complete
\* valid snapshot of the caller's cache that holds every key put before the
\* persist was called.
C7_SuccessfulPersistIsSnapshot ==
  [][\A t \in Threads :
       (ppc[t] = "release" /\ ppc'[t] = "idle" /\ ReturnsOk(t)) =>
         /\ ValidFile(primary')
         /\ callKeys[t] \subseteq ContentOf(primary')
         /\ ContentOf(primary') \subseteq cache[ProcOf(t)]]_vars

\* the backup holds the complete image of a cache that has been persisted
GoodBackup == ValidFile(backup) /\ ContentOf(backup) \in snapshots
CopyInProgress == \E t \in Threads : ppc[t] = "copy"

\* C8: whenever a step writes the backup or ends a copy to it (the copy is
\* over, or its process is killed) and leaves no copy in progress, the backup
\* holds exactly a previously persisted snapshot.
C8_BackupIsPersistedSnapshot ==
  [][(~CopyInProgress' /\ (backup' # backup \/ CopyInProgress)) =>
       GoodBackup']_vars

\* C9: a thread writes the temporary file and renames it only while its
\* process holds the cross-process lock, so threads of two processes are
\* never both between the open of the temporary file and the rename.
C9_WritesOnlyUnderLock ==
  /\ \A t \in Threads : WritingTemp(t) => fileLock = t
  /\ \A t, u \in Threads :
       (WritingTemp(t) /\ WritingTemp(u)) => ProcOf(t) = ProcOf(u)

\* C10: load gives the primary's content when the primary is a valid JSON
\* file; otherwise the backup's content when the backup is valid; otherwise
\* the empty mapping.
C10_LoadFallback ==
  [][\A p \in Procs :
       (~alive[p] /\ alive'[p]) =>
         cache'[p] = IF ValidFile(primary) THEN ContentOf(primary)
                     ELSE IF ValidFile(backup) THEN ContentOf(backup)
                     ELSE {}]_vars

\* C10 witness: p1 has just loaded the backup's content because the primary
\* is a truncated file
C10_Witness ==
  /\ alive["p1"]
  /\ starts = 1
  /\ primary.exists
  /\ ~ValidFile(primary)
  /\ ValidFile(backup)
  /\ ContentOf(backup) = {"k1"}
  /\ cache["p1"] = {"k1"}
  /\ \A t \in Threads : ppc[t] \in {"idle", "down"}

\* C11: load_cache_with_fallback never raises, whatever the primary and the
\* backup hold: the latest load has returned a mapping.
C11_LoadNeverRaises == loaded.exc = "none"

\* C15: in a run of one instance, a load that follows a persist that returned
\* without raising, with no other persist in between, returns the mapping
\* that persist was given.
C15_RoundTrip ==
  [][(instances = "threads" /\ starts' = starts + 1 /\ lastOk.at > 0) =>
       loaded' = [exc |-> "none", value |-> lastOk.value]]_vars

\* C15 witness: the instance was restarted after it persisted both keys, and
\* its load gave both keys
C15_Witness ==
  /\ instances = "threads"
  /\ lastOk.at > 0
  /\ lastOk.at < starts
  /\ lastOk.value = Keys
  /\ loaded = [exc |-> "none", value |-> Keys]

\* C19: a thread that is not inside save_cache_atomic does not hold the
\* cross-process lock: the lock is released on every way out of the persist,
\* a failed write and a failed rename included.
C19_LockReleasedOnExit ==
  \A t \in Threads :
    ppc[t] \in {"down", "idle", "call", "copy_open", "copy", "atomic"} =>
      fileLock # t

\* C19 witness: a persist that had acquired the lock ended in an OSError and
\* the lock is free
C19_Witness ==
  \E t \in Threads :
    /\ persistEnd[t] = "OSError"
    /\ ppc[t] = "idle"
    /\ fileLock = "none"

\* C20: once a load has given a non-empty cache or a persist has returned
\* without raising, the primary and the backup are never both invalid,
\* whatever is put and persisted and whenever a process is killed.
C20_NeverBothInvalid ==
  established => (ValidFile(primary) \/ ValidFile(backup))

(***************************************************************************)
(* Properties of one search in detail (checked under SpecSearch)           *)
(***************************************************************************)

\* how many question ids the details of the chapters in S list
RECURSIVE ListedIn(_)
ListedIn(S) ==
  IF S = {} THEN 0
  ELSE LET c == CHOOSE x \in S : TRUE
       IN Len(QuestionsOf(c)) + ListedIn(S \ {c})

\* the positions in matching_questions of the matches of chapter c
FoundOf(c) == {i \in 1..Len(found) : found[i].chapter = c}
\* the last match of chapter c in listing order
LastFound(c) ==
  found[CHOOSE i \in FoundOf(c) : \A j \in FoundOf(c) : j <= i].question

\* C12: within one run of the application at most one network request is
\* issued for each question id, whichever tasks ask for it and whatever the
\* first request returned.
C12_AtMostOneRequest == \A q \in QuestionIds : requests[q] <= 1

\* C13: a persist that raises while a fetched question or chapter list is
\* cached stays inside its unit of work: it ends neither the chapter task nor
\* search_questions.
C13_PersistFailureContained ==
  /\ searchExc # "persist"
  /\ \A c \in SearchChapters : taskExc[c] # "persist"

\* C14: when the search has returned, progress_callback(1) has been called as
\* many times as the fetched chapter details list question ids.
C14_CallbackPerQuestion ==
  searchPc = "returned" => progress = ListedIn(detailed)

\* C16 as stated: once list_chapters has returned, after a fetch or not, the
\* chapter-list key is in the cache.
C16_CachedUnconditionally ==
  searchPc \in {"gather", "returned"} => chapterList # "absent"

\* C16 as amended: a fetch of list_chapters that gives a non-empty JSON
\* object leaves the key in the cache, with an empty list when the object has
\* no or an empty data list; a fetch that gives null or the empty object
\* leaves the key absent and the search returns; and once the key is in the
\* cache it stays as it is and list_chapters issues no network request.
C16_CachedWhenFetched ==
  [][/\ (searchPc = "list_fetch" /\ listResp' = "chapters") =>
          chapterList' = "full"
     /\ (searchPc = "list_fetch" /\ listResp' \in {"empty_data", "no_data"}) =>
          chapterList' = "empty"
     /\ (searchPc = "list_fetch" /\ listResp' \in {"empty_object", "null"}) =>
          (chapterList' = "absent" /\ searchPc' = "returned")
     /\ chapterList # "absent" =>
          (chapterList' = chapterList /\ listRequests' = listRequests)]_vars

\* C16 witness: the second search got the empty chapter list the first search
\* had fetched and cached, without a request
C16_Witness ==
  /\ searches = 2
  /\ searchPc = "returned"
  /\ chapterList = "empty"
  /\ listRequests = 1

\* C17: no output path is written by more than one chapter task of a search.
C17_NoSharedPath == \A p \in Paths : Cardinality(wrote[p]) <= 1

\* C18: when the search has returned, the output file of every chapter with a
\* match holds the detail of the last match of that chapter, and a chapter
\* without a match has written no file.
C18_LastMatchInFile ==
  searchPc = "returned" =>
    \A c \in SearchChapters :
      IF FoundOf(c) # {}
        THEN outFiles[OutputPath(titles[c])] = LastFound(c)
        ELSE c \notin wrote[OutputPath(titles[c])]

====
